---- MODULE Spec2Model ----
(***************************************************************************)
(* pk (project-kit): descriptor loading and discovery (pkg/config), the    *)
(* TTL-bounded project cache (pkg/cache/cache.go) and the access tracker   *)
(* (pkg/cache/access.go), with the detached goroutines of the cache and    *)
(* the non-atomic file writes they perform.                                *)
(***************************************************************************)
EXTENDS Integers, Sequences, FiniteSets, TLC

VARIABLES
    tree,       \* the home directory: root name -> NoDir or the walk of that root
    cacheFile,  \* ~/.cache/pk/projects.json
    accessFile, \* ~/.cache/pk/access.json
    pc,         \* per invocation: position of the main goroutine
    loc,        \* per invocation: locals of the main goroutine
    ret,        \* per invocation: what the last finished call returned
    gor,        \* per invocation: the detached goroutines, by slot
    recording,  \* whether the history of scans is kept
    scanlog,    \* history: for each marshalled scan result, the minutes since the
                \* latest scan that gave it, and whether InvalidateCache has
                \* returned since that scan
    disc,       \* the arguments and result of the last direct FindProjects call
    ent,        \* the entity a command has loaded from one descriptor, and what it shows of it
    cacheDir,   \* whether ~/.cache/pk exists or can be created (GetCacheFile, GetAccessFile)
    now         \* the wall clock, counted in calls of time.Now

vars == <<tree, cacheFile, accessFile, pc, loc, ret, gor, recording, scanlog, disc, ent,
          cacheDir, now>>

----------------------------------------------------------------------------
(* Bounds of the model *)

MaxGor == 1         \* detached goroutines alive at once in one invocation
MaxEntries == 2     \* discovery harness: descriptors/directories per root
MaxRoots == 3       \* discovery harness: length of the root list
MaxClock == 3       \* calls of time.Now by RecordAccess in one behaviour

(* Program constants *)

CacheMaxAge == 5    \* 5 * time.Minute

Procs == {"tab1"}

\* the shell tabs an invocation can run in; the commands of Procs run in the first
Tabs == {"tab1", "tab2"}

----------------------------------------------------------------------------
(* Descriptor files (.project.toml) and the Project struct *)

EmptyDoc ==
    [ syntax     |-> TRUE,
      project    |-> [id |-> ""],
      links      |-> [scriptorium_project |-> "", conduit_graph |-> ""],
      consultant |-> [ownership |-> "", client_name |-> "", client_type |-> "",
                      partner |-> "", my_role |-> "", license_model |-> ""],
      datakai    |-> [visibility |-> "", scriptorium_project |-> "",
                      conduit_graph |-> ""],
      ownership  |-> [primary |-> "", partners |-> <<>>, license_model |-> "",
                      visibility |-> ""],
      client     |-> [end_client |-> "", intermediary |-> "", my_role |-> ""] ]

\* a new-schema descriptor, a legacy one, one sharing the first one's id, and
\* one with invalid TOML syntax
DocA   == [EmptyDoc EXCEPT !.project.id = "a", !.consultant.ownership = "datakai"]
DocB   == [EmptyDoc EXCEPT !.project.id = "b", !.ownership.primary = "acme",
                           !.ownership.visibility = "private"]
DocA2  == [EmptyDoc EXCEPT !.project.id = "a", !.client.end_client = "globex"]
DocBad == [EmptyDoc EXCEPT !.syntax = FALSE]

\* toml.DecodeFile into a zero Project whose Path is already set
Decode(doc, dir) ==
    [ Path            |-> dir,
      ProjectInfo     |-> [ID |-> doc.project.id],
      Links           |-> [ScriptoriumProject |-> doc.links.scriptorium_project,
                           ConduitGraph |-> doc.links.conduit_graph],
      Consultant      |-> [Ownership |-> doc.consultant.ownership,
                           ClientName |-> doc.consultant.client_name,
                           ClientType |-> doc.consultant.client_type,
                           Partner |-> doc.consultant.partner,
                           MyRole |-> doc.consultant.my_role,
                           LicenseModel |-> doc.consultant.license_model],
      DataKai         |-> [Visibility |-> doc.datakai.visibility,
                           ScriptoriumProject |-> doc.datakai.scriptorium_project,
                           ConduitGraph |-> doc.datakai.conduit_graph],
      LegacyOwnership |-> [Primary |-> doc.ownership.primary,
                           Partners |-> doc.ownership.partners,
                           LicenseModel |-> doc.ownership.license_model,
                           Visibility |-> doc.ownership.visibility],
      LegacyClient    |-> [EndClient |-> doc.client.end_client,
                           Intermediary |-> doc.client.intermediary,
                           MyRole |-> doc.client.my_role],
      migrated        |-> FALSE ]

\* variant: the last legacy partner is taken
MigrateOwnershipLastPartner(p) ==
    LET p1 == [p EXCEPT !.Consultant.Ownership = p.LegacyOwnership.Primary,
                        !.Consultant.LicenseModel = p.LegacyOwnership.LicenseModel]
        p2 == IF Len(p.LegacyOwnership.Partners) > 0
              THEN [p1 EXCEPT !.Consultant.Partner =
                                 p.LegacyOwnership.Partners[Len(p.LegacyOwnership.Partners)]]
              ELSE p1
    IN  IF p.LegacyOwnership.Visibility # ""
        THEN [p2 EXCEPT !.DataKai.Visibility = p.LegacyOwnership.Visibility]
        ELSE p2

\* migrateSchema, the [ownership] -> [consultant] part
MigrateOwnership(p) ==
    LET p1 == [p EXCEPT !.Consultant.Ownership = p.LegacyOwnership.Primary,
                        !.Consultant.LicenseModel = p.LegacyOwnership.LicenseModel]
        p2 == IF Len(p.LegacyOwnership.Partners) > 0
              THEN [p1 EXCEPT !.Consultant.Partner = p.LegacyOwnership.Partners[1]]
              ELSE p1
    IN  IF p.LegacyOwnership.Visibility # ""
        THEN [p2 EXCEPT !.DataKai.Visibility = p.LegacyOwnership.Visibility]
        ELSE p2

\* variant: an end-client is enough to call the client type "partner"
MigrateClientAlwaysPartner(p) ==
    LET p1 == [p EXCEPT !.Consultant.ClientName = p.LegacyClient.EndClient,
                        !.Consultant.MyRole = p.LegacyClient.MyRole]
    IN  IF p.LegacyClient.Intermediary # ""
        THEN [p1 EXCEPT !.Consultant.Partner = p.LegacyClient.Intermediary,
                        !.Consultant.ClientType = "partner"]
        ELSE IF p.LegacyClient.EndClient # ""
        THEN [p1 EXCEPT !.Consultant.ClientType = "partner"]
        ELSE p1

\* migrateSchema, the [client] -> [consultant] part
MigrateClient(p) ==
    LET p1 == [p EXCEPT !.Consultant.ClientName = p.LegacyClient.EndClient,
                        !.Consultant.MyRole = p.LegacyClient.MyRole]
    IN  IF p.LegacyClient.Intermediary # ""
        THEN [p1 EXCEPT !.Consultant.Partner = p.LegacyClient.Intermediary,
                        !.Consultant.ClientType = "partner"]
        ELSE IF p.LegacyClient.EndClient # ""
        THEN [p1 EXCEPT !.Consultant.ClientType = "direct"]
        ELSE p1

\* variant: the two sub-fields are moved, leaving [links] without them
MigrateLinksMove(p) ==
    [p EXCEPT !.DataKai.ScriptoriumProject = p.Links.ScriptoriumProject,
              !.DataKai.ConduitGraph = p.Links.ConduitGraph,
              !.Links.ScriptoriumProject = "",
              !.Links.ConduitGraph = "",
              !.migrated = TRUE]

\* migrateSchema, the [links] -> [datakai] part
MigrateLinks(p) ==
    LET p1 == IF p.Links.ScriptoriumProject # ""
              THEN [p EXCEPT !.DataKai.ScriptoriumProject = p.Links.ScriptoriumProject,
                             !.migrated = TRUE]
              ELSE p
    IN  IF p.Links.ConduitGraph # ""
        THEN [p1 EXCEPT !.DataKai.ConduitGraph = p.Links.ConduitGraph,
                        !.migrated = TRUE]
        ELSE p1

\* variant: the three parts run on every entity
migrateSchemaUnguarded(p) ==
    MigrateLinks(MigrateClient(MigrateOwnership([p EXCEPT !.migrated = TRUE])))

\* variant: without a legacy ownership or client there is nothing to migrate
migrateSchemaLegacyOnly(p) ==
    LET hasLegacyOwnership == p.LegacyOwnership.Primary # ""
        hasLegacyClient == p.LegacyClient.EndClient # "" \/ p.LegacyClient.Intermediary # ""
    IN  IF ~hasLegacyOwnership /\ ~hasLegacyClient
        THEN p
        ELSE LET p0 == [p EXCEPT !.migrated = TRUE]
                 p1 == IF hasLegacyOwnership THEN MigrateOwnership(p0) ELSE p0
                 p2 == IF hasLegacyClient THEN MigrateClient(p1) ELSE p1
             IN  MigrateLinks(p2)

migrateSchema(p) ==
    LET hasLegacyOwnership == p.LegacyOwnership.Primary # ""
        hasLegacyClient == p.LegacyClient.EndClient # "" \/ p.LegacyClient.Intermediary # ""
    IN  IF /\ ~hasLegacyOwnership /\ ~hasLegacyClient
           /\ p.Links.ScriptoriumProject = "" /\ p.Links.ConduitGraph = ""
        THEN p
        ELSE LET p0 == [p EXCEPT !.migrated = TRUE]
                 p1 == IF hasLegacyOwnership THEN MigrateOwnership(p0) ELSE p0
                 p2 == IF hasLegacyClient THEN MigrateClient(p1) ELSE p1
             IN  MigrateLinks(p2)

(* the accessors, which fall back on the legacy fields *)
GetOwner(p) ==
    IF p.Consultant.Ownership # "" THEN p.Consultant.Ownership
    ELSE p.LegacyOwnership.Primary

GetLicenseModel(p) ==
    IF p.Consultant.LicenseModel # "" THEN p.Consultant.LicenseModel
    ELSE p.LegacyOwnership.LicenseModel

GetClientName(p) ==
    IF p.Consultant.ClientName # "" THEN p.Consultant.ClientName
    ELSE p.LegacyClient.EndClient

\* variant: the legacy partners list is not consulted
GetPartnerNoList(p) ==
    IF p.Consultant.Partner # "" THEN p.Consultant.Partner
    ELSE p.LegacyClient.Intermediary

GetPartner(p) ==
    IF p.Consultant.Partner # "" THEN p.Consultant.Partner
    ELSE IF Len(p.LegacyOwnership.Partners) > 0 THEN p.LegacyOwnership.Partners[1]
    ELSE p.LegacyClient.Intermediary

GetMyRole(p) ==
    IF p.Consultant.MyRole # "" THEN p.Consultant.MyRole
    ELSE p.LegacyClient.MyRole

GetPartners(p) ==
    IF p.Consultant.Partner # "" THEN <<p.Consultant.Partner>>
    ELSE p.LegacyOwnership.Partners

\* filepath.Dir of <root>/<dir>/.project.toml
Dir(path) == SubSeq(path, 1, Len(path) - 1)

LoadProject(path, doc) ==
    IF ~doc.syntax
    THEN [err |-> TRUE, project |-> <<>>]
    ELSE [err |-> FALSE, project |-> <<migrateSchema(Decode(doc, Dir(path)))>>]

----------------------------------------------------------------------------
(* Discovery: FindProjects over the directory tree.  The walk of a root is  *)
(* the sequence of things filepath.Walk hands to the callback that matter:  *)
(* a .project.toml file (inside the directory named by its position), or a  *)
(* directory that cannot be read (the callback receives err != nil).        *)

NoDir == [exists |-> FALSE, walk |-> <<>>]
DirOf(entries) == [exists |-> TRUE, walk |-> entries]

TomlEntry(doc) == [kind |-> "toml", doc |-> doc]
Unreadable == [kind |-> "unreadable", doc |-> EmptyDoc]

TomlPath(root, i) == <<root, i, ".project.toml">>

\* variant: a descriptor that does not parse ends the walk of its root
RECURSIVE WalkFromStrict(_, _, _, _)
WalkFromStrict(root, entries, i, projects) ==
    IF i > Len(entries)
    THEN [err |-> FALSE, projects |-> projects]
    ELSE IF entries[i].kind = "unreadable"
    THEN [err |-> TRUE, projects |-> projects]
    ELSE LET l == LoadProject(TomlPath(root, i), entries[i].doc)
         IN  IF l.err
             THEN [err |-> FALSE, projects |-> projects]
             ELSE WalkFromStrict(root, entries, i + 1, projects \o l.project)

\* the filepath.Walk callback, applied to entries i.. of one root
RECURSIVE WalkFrom(_, _, _, _)
WalkFrom(root, entries, i, projects) ==
    IF i > Len(entries)
    THEN [err |-> FALSE, projects |-> projects]
    ELSE IF entries[i].kind = "unreadable"
    THEN [err |-> TRUE, projects |-> projects]
    ELSE LET l == LoadProject(TomlPath(root, i), entries[i].doc)
         IN  IF l.err
             THEN WalkFrom(root, entries, i + 1, projects)
             ELSE WalkFrom(root, entries, i + 1, projects \o l.project)

\* variant: a root whose walk fails is skipped like a missing root
RECURSIVE FindFromSkipping(_, _, _, _)
FindFromSkipping(rootDirs, t, k, projects) ==
    IF k > Len(rootDirs)
    THEN [err |-> FALSE, projects |-> projects]
    ELSE IF ~t[rootDirs[k]].exists
    THEN FindFromSkipping(rootDirs, t, k + 1, projects)
    ELSE LET w == WalkFrom(rootDirs[k], t[rootDirs[k]].walk, 1, projects)
         IN  IF w.err
             THEN FindFromSkipping(rootDirs, t, k + 1, projects)
             ELSE FindFromSkipping(rootDirs, t, k + 1, w.projects)

\* the loop over rootDirs, from the k-th root on
RECURSIVE FindFrom(_, _, _, _)
FindFrom(rootDirs, t, k, projects) ==
    IF k > Len(rootDirs)
    THEN [err |-> FALSE, projects |-> projects]
    ELSE IF ~t[rootDirs[k]].exists
    THEN FindFrom(rootDirs, t, k + 1, projects)
    ELSE LET w == WalkFrom(rootDirs[k], t[rootDirs[k]].walk, 1, projects)
         IN  IF w.err
             THEN [err |-> TRUE, projects |-> <<>>]
             ELSE FindFrom(rootDirs, t, k + 1, w.projects)

FindProjects(rootDirs, t) == FindFrom(rootDirs, t, 1, <<>>)

RootNames == {"projects", "archive", "scriptorium", "scratch"}
SessionRoots == <<"projects", "archive", "scriptorium">>
RecentRoots == <<"projects", "scratch">>

----------------------------------------------------------------------------
(* The snapshot file.  Its content is a sequence of chunks: json.Marshal-   *)
(* Indent of a []*Project is "[" , one object per element, "]", and "null"  *)
(* for a nil slice.  Only exported fields are encoded.                      *)

(* json.MarshalIndent writes every string as valid UTF-8: a byte that is    *)
(* not part of a valid encoding is replaced by U+FFFD.  A directory path is *)
(* <<root, position>> when its name is valid UTF-8, and has the offending   *)
(* byte as a third element when it is not.                                  *)
CoerceUTF8(path) ==
    IF Len(path) = 3 /\ path[3] = "0xE9"
    THEN <<path[1], path[2], "U+FFFD">>
    ELSE path

Exported(p) ==
    [ Path |-> CoerceUTF8(p.Path), ProjectInfo |-> p.ProjectInfo, Links |-> p.Links,
      Consultant |-> p.Consultant, DataKai |-> p.DataKai,
      LegacyOwnership |-> p.LegacyOwnership, LegacyClient |-> p.LegacyClient ]

\* decoding one object into a zero Project: the unexported field stays false
Imported(o) ==
    [ Path |-> o.Path, ProjectInfo |-> o.ProjectInfo, Links |-> o.Links,
      Consultant |-> o.Consultant, DataKai |-> o.DataKai,
      LegacyOwnership |-> o.LegacyOwnership, LegacyClient |-> o.LegacyClient,
      migrated |-> FALSE ]

Chunk(t, v) == [t |-> t, v |-> v]

\* the encoder's output for the objects it has read
EncodeArray(objs) ==
    IF Len(objs) = 0
    THEN <<Chunk("null", <<>>)>>
    ELSE <<Chunk("[", <<>>)>>
         \o [i \in 1..Len(objs) |-> Chunk("obj", <<objs[i]>>)]
         \o <<Chunk("]", <<>>)>>

Marshal(projects) == EncodeArray([i \in 1..Len(projects) |-> Exported(projects[i])])

WellFormed(data) ==
    \/ data = <<Chunk("null", <<>>)>>
    \/ /\ Len(data) >= 2
       /\ data[1].t = "["
       /\ data[Len(data)].t = "]"
       /\ \A i \in 2..(Len(data) - 1) : data[i].t = "obj"

\* variant: decodes the array back to front
UnmarshalReversed(data) ==
    IF ~WellFormed(data)
    THEN [err |-> TRUE, projects |-> <<>>]
    ELSE IF data[1].t = "null"
    THEN [err |-> FALSE, projects |-> <<>>]
    ELSE [err |-> FALSE,
          projects |-> [i \in 1..(Len(data) - 2) |->
                           Imported(data[Len(data) - i].v[1])]]

Unmarshal(data) ==
    IF ~WellFormed(data)
    THEN [err |-> TRUE, projects |-> <<>>]
    ELSE IF data[1].t = "null"
    THEN [err |-> FALSE, projects |-> <<>>]
    ELSE [err |-> FALSE,
          projects |-> [i \in 1..(Len(data) - 2) |-> Imported(data[i + 1].v[1])]]

(* Time is kept relative to the clock: a file carries the minutes elapsed   *)
(* since its modification time (time.Since(info.ModTime())), which a write  *)
(* resets to 0 and the passing of a minute increments.  Ages are counted up *)
(* to CacheMaxAge + 1, which stands for every larger age.                   *)

NoFile == [exists |-> FALSE, data |-> <<>>, age |-> 0]

Older(age) == IF age > CacheMaxAge THEN age ELSE age + 1

\* os.WriteFile, first half: open(O_WRONLY|O_CREATE|O_TRUNC)
Truncated == [exists |-> TRUE, data |-> <<>>, age |-> 0]

\* os.WriteFile, second half: write(data) at offset 0 of what the file holds by then
Written(f, data) ==
    [exists |-> TRUE,
     data |-> data \o SubSeq(f.data, Len(data) + 1, Len(f.data)),
     age |-> 0]

\* variant: the file is emptied, not unlinked
RemovedEmptied(f) == [exists |-> TRUE, data |-> <<>>, age |-> 0]

\* os.Remove; removing a file that does not exist is not an error
Removed(f) == NoFile

\* variant: a snapshot exactly CacheMaxAge old still counts as valid
\* variant: the path is always resolved
GetCacheFileUnchecked(dir) == [err |-> FALSE]

\* GetCacheFile and GetAccessFile: os.MkdirAll of ~/.cache/pk fails when the
\* directory is missing and cannot be created, or cannot be reached
GetCacheFile(dir) == [err |-> ~dir]

IsCacheValidInclusive(f) ==
    IF ~f.exists THEN FALSE ELSE f.age <= CacheMaxAge

IsCacheValid(f) ==
    IF ~f.exists THEN FALSE ELSE f.age < CacheMaxAge

\* variant: bytes that do not decode are taken for an empty list
LoadFromCacheUnchecked(f) ==
    IF ~f.exists THEN [err |-> TRUE, projects |-> <<>>]
    ELSE IF ~WellFormed(f.data) THEN [err |-> FALSE, projects |-> <<>>]
    ELSE Unmarshal(f.data)

LoadFromCache(f) ==
    IF ~f.exists THEN [err |-> TRUE, projects |-> <<>>] ELSE Unmarshal(f.data)

Status(f) ==
    IF ~f.exists
    THEN [text |-> "Cache: not built", age |-> 0, valid |-> FALSE, size |-> 0]
    ELSE [text |-> "Cache:", age |-> f.age, valid |-> (f.age < CacheMaxAge),
          size |-> Len(f.data)]

----------------------------------------------------------------------------
(* The access-record file.  In memory the records are a map keyed by        *)
(* project id, kept as the set of its records.  LastAccessed is the         *)
(* position of the access in the order of all accesses, which is all that   *)
(* time.Time.After looks at.  The file's content is a sequence of chunks:   *)
(* json.MarshalIndent of the map is "{", one member per key in sorted key   *)
(* order, "}".                                                              *)

NoAccessFile == [exists |-> FALSE, data |-> <<>>]

AccessRecord(id, path, t) ==
    [ProjectID |-> id, ProjectPath |-> path, LastAccessed |-> t]

Has(records, id) == \E r \in records : r.ProjectID = id
Get(records, id) == CHOOSE r \in records : r.ProjectID = id

\* the project ids of the model, in the order encoding/json sorts map keys
Ids == <<"a", "b", "c", "d", "ghost">>

\* GetAccessFile: the same directory as the snapshot's
GetAccessFile(dir) == [err |-> ~dir]

RECURSIVE EncodeMembers(_, _)
EncodeMembers(records, i) ==
    IF i > Len(Ids) THEN <<>>
    ELSE (IF Has(records, Ids[i]) THEN <<Chunk("rec", <<Get(records, Ids[i])>>)>>
          ELSE <<>>)
         \o EncodeMembers(records, i + 1)

\* json.MarshalIndent of a map[string]AccessRecord
MarshalRecords(records) ==
    <<Chunk("{", <<>>)>> \o EncodeMembers(records, 1) \o <<Chunk("}", <<>>)>>

\* json.Unmarshal into a map[string]AccessRecord accepts one complete object
WellFormedMap(data) ==
    /\ Len(data) >= 2
    /\ data[1].t = "{"
    /\ data[Len(data)].t = "}"
    /\ \A i \in 2..(Len(data) - 1) : data[i].t = "rec"

\* variant: a missing file is an error
LoadAccessRecordsStrict(f) ==
    IF ~f.exists \/ ~WellFormedMap(f.data) THEN [err |-> TRUE, records |-> {}]
    ELSE [err |-> FALSE,
          records |-> {f.data[i].v[1] : i \in 2..(Len(f.data) - 1)}]

\* LoadAccessRecords, lines 42-55, once GetAccessFile has succeeded
LoadAccessRecords(f) ==
    IF ~f.exists THEN [err |-> FALSE, records |-> {}]
    ELSE IF ~WellFormedMap(f.data) THEN [err |-> TRUE, records |-> {}]
    ELSE [err |-> FALSE,
          records |-> {f.data[i].v[1] : i \in 2..(Len(f.data) - 1)}]

\* variant: the map is started afresh with the one record
UpsertAlone(records, id, path, t) == {AccessRecord(id, path, t)}

\* variant: the record is added next to the ones the map holds
UpsertAppending(records, id, path, t) ==
    records \cup {AccessRecord(id, path, t)}

\* RecordAccess, lines 80-84: records[projectID] = AccessRecord{...}
Upsert(records, id, path, t) ==
    {r \in records : r.ProjectID # id} \cup {AccessRecord(id, path, t)}

\* the file after os.WriteFile has opened it, and after it has written data
\* from offset 0 over what the file holds by then
AccessTruncated == [exists |-> TRUE, data |-> <<>>]
\* a write that adds to the end of the file
AccessAppended(f, data) ==
    [exists |-> TRUE, data |-> f.data \o data]

AccessWritten(f, data) ==
    [exists |-> TRUE, data |-> data \o SubSeq(f.data, Len(data) + 1, Len(f.data))]

\* an access file as SaveAccessRecords leaves it
AccessFileOf(records) == [exists |-> TRUE, data |-> MarshalRecords(records)]

\* variant: the earlier access comes first
LessAscending(projects, records, i, j) ==
    LET okI == Has(records, projects[i].ProjectInfo.ID)
        okJ == Has(records, projects[j].ProjectInfo.ID)
    IN  IF ~okI /\ ~okJ THEN FALSE
        ELSE IF ~okI THEN FALSE
        ELSE IF ~okJ THEN TRUE
        ELSE Get(records, projects[i].ProjectInfo.ID).LastAccessed
                 < Get(records, projects[j].ProjectInfo.ID).LastAccessed

\* the less function handed to sort.Slice in GetRecentProjects
Less(projects, records, i, j) ==
    LET okI == Has(records, projects[i].ProjectInfo.ID)
        okJ == Has(records, projects[j].ProjectInfo.ID)
    IN  IF ~okI /\ ~okJ THEN FALSE
        ELSE IF ~okI THEN FALSE
        ELSE IF ~okJ THEN TRUE
        ELSE Get(records, projects[i].ProjectInfo.ID).LastAccessed
                 > Get(records, projects[j].ProjectInfo.ID).LastAccessed

\* reflect.Swapper on the slice's backing array
Swap(a, i, j) == [a EXCEPT ![i] = a[j], ![j] = a[i]]

\* variant: a limit of zero or less truncates to nothing
LimitedAlways(projects, limit) ==
    IF limit < Len(projects)
    THEN SubSeq(projects, 1, IF limit > 0 THEN limit ELSE 0)
    ELSE projects

\* projects[:limit]
Limited(projects, limit) ==
    IF limit > 0 /\ limit < Len(projects) THEN SubSeq(projects, 1, limit) ELSE projects

----------------------------------------------------------------------------
(* Invocations of the tool.  An invocation has a main goroutine and up to   *)
(* MaxGor detached goroutines; when the invocation ends they die with it.   *)

Slots == 1..MaxGor

\* arr is the backing array of the slice the goroutine was handed, scanned is
\* that slice as the scan produced it (history), out is the encoder's buffer
\* and then the bytes to write
NoGor == [kind |-> "none", pc |-> "", roots |-> <<>>, arr |-> <<>>,
          scanned |-> <<>>, out |-> <<>>, orphan |-> FALSE]

NoRet == [op |-> "none", err |-> FALSE, projects |-> <<>>, src |-> "", records |-> {}]

NoLoc == [caller |-> "", roots |-> <<>>, records |-> {}, limit |-> 0,
          projects |-> <<>>, shared |-> 0, i |-> 0, j |-> 0,
          id |-> "", path |-> <<>>, out |-> <<>>]

Free(p) == {g \in Slots : gor[p][g].kind = "none"}

FirstFree(p) == CHOOSE g \in Free(p) : \A h \in Free(p) : g <= h

\* the history of scans: how long ago each (marshalled) result was last scanned
Logged(log, projects) ==
    IF recording
    THEN {e \in log : e.data # Marshal(projects)}
         \cup {[data |-> Marshal(projects), age |-> 0, invalidated |-> FALSE]}
    ELSE log

\* FindProjectsCached hands (projects, err) to its caller: to the command, or
\* to GetRecentProjects (lines 103-109), which goes on to sort the slice
Returned(p, err, projects, src, slot) ==
    IF loc[p].caller = "recent" /\ ~err
    THEN /\ pc' = [pc EXCEPT ![p] = "grp_sort"]
         /\ loc' = [loc EXCEPT ![p].projects = projects, ![p].shared = slot,
                               ![p].i = 2, ![p].j = 2]
         /\ UNCHANGED ret
    ELSE /\ pc' = [pc EXCEPT ![p] = "main"]
         /\ loc' = [loc EXCEPT ![p] = NoLoc]
         /\ ret' = [ret EXCEPT ![p] =
                       [op |-> IF loc[p].caller = "recent" THEN "GetRecentProjects"
                               ELSE "FindProjectsCached",
                        err |-> err, projects |-> projects, src |-> src,
                        records |-> {}]]

(* FindProjectsCached, lines 86-87: IsCacheValid *)
FPC_Check(p, at, caller, roots) ==
    /\ pc[p] = at
    /\ pc' = [pc EXCEPT ![p] = IF ~GetCacheFile(cacheDir).err /\ IsCacheValid(cacheFile)
                                THEN "fpc_load"
                                ELSE "fpc_scan"]
    /\ loc' = [loc EXCEPT ![p].caller = caller, ![p].roots = roots]
    /\ UNCHANGED <<tree, cacheFile, accessFile, ret, gor, scanlog, recording, disc, ent, cacheDir, now>>

(* FindProjectsCached, lines 88-92: LoadFromCache; return on success *)
FPC_Load(p) ==
    /\ pc[p] = "fpc_load"
    /\ LET l == IF GetCacheFile(cacheDir).err THEN [err |-> TRUE, projects |-> <<>>]
                ELSE LoadFromCache(cacheFile)
       IN  IF l.err
           THEN /\ pc' = [pc EXCEPT ![p] = "fpc_scan"]
                /\ UNCHANGED <<ret, loc>>
           ELSE Returned(p, FALSE, l.projects, "cache", 0)
    /\ UNCHANGED <<tree, cacheFile, accessFile, gor, scanlog, recording, disc, ent, cacheDir, now>>

(* FindProjectsCached, lines 95-106: scan, start the write-back, return *)
FPC_Scan(p) ==
    /\ pc[p] = "fpc_scan"
    /\ LET s == FindProjects(loc[p].roots, tree)
       IN  IF s.err
           THEN /\ Returned(p, TRUE, <<>>, "scan", 0)
                /\ UNCHANGED <<gor, scanlog>>
           ELSE /\ Free(p) # {}
                /\ Returned(p, FALSE, s.projects, "scan", FirstFree(p))
                /\ gor' = [gor EXCEPT ![p][FirstFree(p)] =
                              [NoGor EXCEPT !.kind = "writeback", !.pc = "marshal",
                                            !.arr = s.projects,
                                            !.scanned = s.projects]]
                /\ scanlog' = Logged(scanlog, s.projects)
    /\ UNCHANGED <<tree, cacheFile, accessFile, recording, disc, ent, cacheDir, now>>

(* InvalidateCache: os.Remove unlinks the file; a writer that has it open  *)
(* keeps writing to the unlinked file.                                      *)
Unlinked(gs) ==
    [g \in Slots |-> IF gs[g].pc = "write" THEN [gs[g] EXCEPT !.orphan = TRUE]
                     ELSE gs[g]]

InvalidateCache(p) ==
    /\ pc[p] = "main"
    /\ IF GetCacheFile(cacheDir).err
       THEN /\ ret' = [ret EXCEPT ![p] = [NoRet EXCEPT !.op = "InvalidateCache",
                                                       !.err = TRUE]]
            /\ UNCHANGED <<cacheFile, gor, scanlog>>
       ELSE /\ cacheFile' = Removed(cacheFile)
            /\ gor' = [q \in Tabs |-> Unlinked(gor[q])]
            /\ ret' = [ret EXCEPT ![p] = [NoRet EXCEPT !.op = "InvalidateCache"]]
            /\ scanlog' = {[e EXCEPT !.invalidated = TRUE] : e \in scanlog}
    /\ UNCHANGED <<tree, accessFile, pc, loc, recording, disc, ent, cacheDir, now>>

(* RebuildCacheAsync: start the goroutine and return *)
RebuildCacheAsync(p, roots) ==
    /\ pc[p] = "main"
    /\ Free(p) # {}
    /\ gor' = [gor EXCEPT ![p][FirstFree(p)] =
                  [NoGor EXCEPT !.kind = "rebuild", !.pc = "invalidate",
                                !.roots = roots]]
    /\ UNCHANGED <<tree, cacheFile, accessFile, pc, loc, ret, scanlog, recording, disc, ent, cacheDir, now>>

\* variant: the rebuild goroutine goes straight to its scan
GoInvalidateSkipped(p, g) ==
    /\ gor[p][g].pc = "invalidate"
    /\ gor' = [gor EXCEPT ![p][g].pc = "scan"]
    /\ UNCHANGED <<tree, cacheFile, accessFile, pc, loc, ret, scanlog, recording, disc, ent, cacheDir, now>>

(* the rebuild goroutine, line 126 *)
GoInvalidate(p, g) ==
    /\ gor[p][g].pc = "invalidate"
    /\ IF GetCacheFile(cacheDir).err
       THEN /\ gor' = [gor EXCEPT ![p][g].pc = "scan"]
            /\ UNCHANGED cacheFile
       ELSE /\ cacheFile' = Removed(cacheFile)
            /\ gor' = [q \in Tabs |->
                         IF q = p THEN [Unlinked(gor[p]) EXCEPT ![g].pc = "scan"]
                         ELSE Unlinked(gor[q])]
    /\ UNCHANGED <<tree, accessFile, pc, loc, ret, scanlog, recording, disc, ent, cacheDir, now>>

(* the rebuild goroutine, lines 127-128 *)
GoScan(p, g) ==
    /\ gor[p][g].pc = "scan"
    /\ LET s == FindProjects(gor[p][g].roots, tree)
       IN  IF s.err
           THEN /\ gor' = [gor EXCEPT ![p][g] = NoGor]
                /\ UNCHANGED scanlog
           ELSE /\ gor' = [gor EXCEPT ![p][g].pc = "marshal", ![p][g].arr = s.projects,
                                      ![p][g].scanned = s.projects]
                /\ scanlog' = Logged(scanlog, s.projects)
    /\ UNCHANGED <<tree, cacheFile, accessFile, pc, loc, ret, recording, disc, ent, cacheDir, now>>

\* the main goroutine is sorting the very array goroutine g encodes
Racing(p, g) == pc[p] = "grp_sort" /\ loc[p].shared = g

(* SaveToCache, lines 71-76: GetCacheFile, on whose error the goroutine     *)
(* ends; then json.MarshalIndent reads the slice element by element.  The   *)
(* reads are taken one at a time while the main goroutine writes the array, *)
(* and all at once otherwise.                                               *)
GoMarshal(p, g) ==
    /\ gor[p][g].pc = "marshal"
    /\ LET arr  == gor[p][g].arr
           done == Len(gor[p][g].out)
           upto == IF Racing(p, g) /\ done < Len(arr) THEN done + 1 ELSE Len(arr)
           objs == gor[p][g].out
                   \o [k \in 1..(upto - done) |-> Exported(arr[done + k])]
       IN  IF done = 0 /\ GetCacheFile(cacheDir).err
           THEN gor' = [gor EXCEPT ![p][g] = NoGor]
           ELSE IF upto = Len(arr)
           THEN gor' = [gor EXCEPT ![p][g].pc = "open", ![p][g].out = EncodeArray(objs)]
           ELSE gor' = [gor EXCEPT ![p][g].out = objs]
    /\ UNCHANGED <<tree, cacheFile, accessFile, pc, loc, ret, scanlog, recording, disc, ent, cacheDir, now>>

(* SaveToCache, line 81: os.WriteFile opens and truncates; when the         *)
(* directory cannot be reached any more the open fails and the goroutine    *)
(* ends                                                                     *)
GoOpen(p, g) ==
    /\ gor[p][g].pc = "open"
    /\ IF cacheDir
       THEN /\ cacheFile' = Truncated
            /\ gor' = [gor EXCEPT ![p][g].pc = "write"]
       ELSE /\ gor' = [gor EXCEPT ![p][g] = NoGor]
            /\ UNCHANGED cacheFile
    /\ UNCHANGED <<tree, accessFile, pc, loc, ret, scanlog, recording, disc, ent, cacheDir, now>>

(* SaveToCache, line 81: os.WriteFile writes and closes; the goroutine ends *)
GoWrite(p, g) ==
    /\ gor[p][g].pc = "write"
    /\ cacheFile' = IF gor[p][g].orphan THEN cacheFile
                    ELSE Written(cacheFile, gor[p][g].out)
    /\ gor' = [gor EXCEPT ![p][g] = NoGor]
    /\ UNCHANGED <<tree, accessFile, pc, loc, ret, scanlog, recording, disc, ent, cacheDir, now>>

(* GetRecentProjects, lines 91-101: LoadAccessRecords *)
GRP_Begin(p, limit) ==
    /\ pc[p] = "main"
    /\ LET l == IF GetAccessFile(cacheDir).err THEN [err |-> TRUE, records |-> {}]
                ELSE LoadAccessRecords(accessFile)
       IN  IF l.err
           THEN /\ ret' = [ret EXCEPT ![p] = [NoRet EXCEPT !.op = "GetRecentProjects",
                                                           !.err = TRUE]]
                /\ UNCHANGED <<pc, loc>>
           ELSE /\ pc' = [pc EXCEPT ![p] = "grp_find"]
                /\ loc' = [loc EXCEPT ![p] = [NoLoc EXCEPT !.records = l.records,
                                                           !.limit = limit]]
                /\ UNCHANGED ret
    /\ UNCHANGED <<tree, cacheFile, accessFile, gor, scanlog, recording, disc, ent, cacheDir, now>>

(* GetRecentProjects, lines 112-128: one step of sort.Slice, which is an    *)
(* insertion sort for slices this short: compare elements j and j-1, swap   *)
(* them and move down, or go on to the next i.                              *)
GRP_Sort(p) ==
    /\ pc[p] = "grp_sort"
    /\ loc[p].i <= Len(loc[p].projects)
    /\ LET l == loc[p]
           g == l.shared
       IN  IF l.j > 1 /\ Less(l.projects, l.records, l.j, l.j - 1)
           THEN /\ loc' = [loc EXCEPT ![p].projects = Swap(l.projects, l.j, l.j - 1),
                                      ![p].j = l.j - 1]
                /\ gor' = IF g # 0 /\ gor[p][g].pc = "marshal"
                          THEN [gor EXCEPT ![p][g].arr = Swap(@, l.j, l.j - 1)]
                          ELSE gor
           ELSE /\ loc' = [loc EXCEPT ![p].i = l.i + 1, ![p].j = l.i + 1]
                /\ UNCHANGED gor
    /\ UNCHANGED <<tree, cacheFile, accessFile, pc, ret, scanlog, recording, disc, ent, cacheDir, now>>

(* GetRecentProjects, lines 130-135: apply the limit and return *)
GRP_Return(p) ==
    /\ pc[p] = "grp_sort"
    /\ loc[p].i > Len(loc[p].projects)
    /\ pc' = [pc EXCEPT ![p] = "main"]
    /\ ret' = [ret EXCEPT ![p] = [NoRet EXCEPT !.op = "GetRecentProjects",
                                               !.projects = Limited(loc[p].projects,
                                                                    loc[p].limit)]]
    /\ loc' = [loc EXCEPT ![p] = NoLoc]
    /\ UNCHANGED <<tree, cacheFile, accessFile, gor, scanlog, recording, disc, ent, cacheDir, now>>

(* RecordAccess, lines 75-78: LoadAccessRecords *)
RA_Load(p, id, path) ==
    /\ pc[p] = "main"
    /\ now + Cardinality({q \in Tabs : pc[q] = "ra_save"}) < MaxClock
    /\ LET l == IF GetAccessFile(cacheDir).err THEN [err |-> TRUE, records |-> {}]
                ELSE LoadAccessRecords(accessFile)
       IN  IF l.err
           THEN /\ ret' = [ret EXCEPT ![p] = [NoRet EXCEPT !.op = "RecordAccess",
                                                           !.err = TRUE]]
                /\ UNCHANGED <<pc, loc>>
           ELSE /\ pc' = [pc EXCEPT ![p] = "ra_save"]
                /\ loc' = [loc EXCEPT ![p] = [NoLoc EXCEPT !.records = l.records,
                                                           !.id = id, !.path = path]]
                /\ UNCHANGED ret
    /\ UNCHANGED <<tree, cacheFile, accessFile, gor, scanlog, recording, disc, ent, cacheDir, now>>

(* RecordAccess, lines 80-86, and SaveAccessRecords, lines 60-70: the       *)
(* record is stamped with time.Now and put into the map, the map is         *)
(* marshalled, and os.WriteFile opens and truncates the file                *)
RA_Open(p) ==
    /\ pc[p] = "ra_save"
    /\ now' = now + 1
    /\ IF GetAccessFile(cacheDir).err
       THEN /\ pc' = [pc EXCEPT ![p] = "main"]
            /\ loc' = [loc EXCEPT ![p] = NoLoc]
            /\ ret' = [ret EXCEPT ![p] = [NoRet EXCEPT !.op = "RecordAccess",
                                                       !.err = TRUE]]
            /\ UNCHANGED accessFile
       ELSE /\ pc' = [pc EXCEPT ![p] = "ra_write"]
            /\ loc' = [loc EXCEPT ![p].out =
                          MarshalRecords(Upsert(loc[p].records, loc[p].id, loc[p].path,
                                                now + 1))]
            /\ accessFile' = AccessTruncated
            /\ UNCHANGED ret
    /\ UNCHANGED <<tree, cacheFile, gor, scanlog, recording, disc, ent, cacheDir>>

(* SaveAccessRecords, line 70: os.WriteFile writes and closes; RecordAccess *)
(* returns nil                                                              *)
RA_Write(p) ==
    /\ pc[p] = "ra_write"
    /\ accessFile' = AccessWritten(accessFile, loc[p].out)
    /\ pc' = [pc EXCEPT ![p] = "main"]
    /\ loc' = [loc EXCEPT ![p] = NoLoc]
    /\ ret' = [ret EXCEPT ![p] = [NoRet EXCEPT !.op = "RecordAccess"]]
    /\ UNCHANGED <<tree, cacheFile, gor, scanlog, recording, disc, ent, cacheDir, now>>

(* a call of LoadAccessRecords by a command (runRecent, line 41) *)
LoadRecords(p) ==
    /\ pc[p] = "main"
    /\ LET l == IF GetAccessFile(cacheDir).err THEN [err |-> TRUE, records |-> {}]
                ELSE LoadAccessRecords(accessFile)
       IN  ret' = [ret EXCEPT ![p] = [NoRet EXCEPT !.op = "LoadAccessRecords",
                                                  !.err = l.err,
                                                  !.records = l.records]]
    /\ UNCHANGED <<tree, cacheFile, accessFile, pc, loc, gor, scanlog, recording, disc, ent, cacheDir, now>>

(* main returns (or the process is killed): its goroutines die where they are, *)
(* and the slot is reused by the next invocation                               *)
Exit(p) ==
    /\ pc[p] = "main"
    /\ \/ ret[p] # NoRet
       \/ \E g \in Slots : gor[p][g] # NoGor
    /\ gor' = [gor EXCEPT ![p] = [g \in Slots |-> NoGor]]
    /\ ret' = [ret EXCEPT ![p] = NoRet]
    /\ UNCHANGED <<tree, cacheFile, accessFile, pc, loc, scanlog, recording, disc, ent, cacheDir, now>>

(* a minute passes *)
Tick ==
    /\ cacheFile' = IF cacheFile.exists THEN [cacheFile EXCEPT !.age = Older(@)]
                    ELSE cacheFile
    /\ scanlog' = {[e EXCEPT !.age = Older(@)] : e \in scanlog}
    /\ UNCHANGED <<tree, accessFile, pc, loc, ret, gor, recording, disc, ent, cacheDir, now>>

(* projects come and go under the roots (pk new, pk clone, rm -r, chmod) *)
OneProject == [r \in RootNames |-> IF r = "projects" THEN DirOf(<<TomlEntry(DocA)>>)
                                   ELSE NoDir]
TwoProjects == [OneProject EXCEPT !["projects"] =
                   DirOf(<<TomlEntry(DocA), TomlEntry(DocB)>>)]
LockedArchive == [OneProject EXCEPT !["archive"] = DirOf(<<Unreadable>>)]

Worlds == {OneProject, TwoProjects, LockedArchive}

Mutate ==
    /\ \E w \in Worlds \ {tree} : tree' = w
    /\ UNCHANGED <<cacheFile, accessFile, pc, loc, ret, gor, scanlog, recording, disc, ent, cacheDir, now>>

NoView == [Owner |-> "", LicenseModel |-> "", ClientName |-> "", Partner |-> "",
           MyRole |-> "", Partners |-> <<>>]

NoEnt == [stage |-> "none", project |-> <<>>, view |-> NoView]

NoDisc == [called |-> FALSE, roots |-> <<>>, err |-> FALSE, projects |-> <<>>]

Idle ==
    /\ pc = [p \in Tabs |-> "main"]
    /\ loc = [p \in Tabs |-> NoLoc]
    /\ ret = [p \in Tabs |-> NoRet]
    /\ gor = [p \in Tabs |-> [g \in Slots |-> NoGor]]
    /\ scanlog = {}
    /\ disc = NoDisc
    /\ ent = NoEnt
    /\ cacheDir = TRUE
    /\ now = 0

----------------------------------------------------------------------------
(* The cache, as the commands of one shell drive it: pk session, pk cache   *)
(* clear / refresh, pk clone.                                               *)

Init ==
    /\ tree = OneProject
    /\ cacheFile = NoFile
    /\ accessFile = NoAccessFile
    /\ recording = FALSE
    /\ Idle

Next ==
    \/ \E p \in Procs : FPC_Check(p, "main", "session", SessionRoots)
    \/ \E p \in Procs : FPC_Load(p)
    \/ \E p \in Procs : FPC_Scan(p)
    \/ \E p \in Procs : InvalidateCache(p)
    \/ \E p \in Procs : RebuildCacheAsync(p, SessionRoots)
    \/ \E p \in Procs, g \in Slots : GoInvalidate(p, g)
    \/ \E p \in Procs, g \in Slots : GoScan(p, g)
    \/ \E p \in Procs, g \in Slots : GoMarshal(p, g)
    \/ \E p \in Procs, g \in Slots : GoOpen(p, g)
    \/ \E p \in Procs, g \in Slots : GoWrite(p, g)
    \/ \E p \in Procs : Exit(p)
    \/ Tick
    \/ Mutate

Spec == Init /\ [][Next]_vars

(* the same system, with the history of scans kept *)
InitHist ==
    /\ tree = OneProject
    /\ cacheFile = NoFile
    /\ accessFile = NoAccessFile
    /\ recording = TRUE
    /\ Idle

SpecHist == InitHist /\ [][Next]_vars

(* the same system on a machine where, between two calls, ~/.cache/pk can   *)
(* become unreachable (chmod of ~/.cache, a read-only or unmounted home)    *)
(* and reachable again; the snapshot stays where it is                      *)
Chmod ==
    /\ \A p \in Tabs : pc[p] = "main"
    /\ cacheDir' = ~cacheDir
    /\ UNCHANGED <<tree, cacheFile, accessFile, pc, loc, ret, gor, recording, scanlog,
                   disc, ent, now>>

NextDir == Next \/ Chmod

SpecDir == Init /\ [][NextDir]_vars

----------------------------------------------------------------------------
(* pk recent: GetRecentProjects over an access file left by earlier         *)
(* sessions.                                                                *)

PathA == <<"projects", 1>>
PathB == <<"projects", 2>>

AccessInits ==
    { NoAccessFile,
      AccessFileOf({AccessRecord("b", PathB, 1)}),
      AccessFileOf({AccessRecord("a", PathA, 1), AccessRecord("b", PathB, 2)}),
      AccessFileOf({AccessRecord("a", PathA, 2), AccessRecord("b", PathB, 1)}) }

Limits == {0, 1}

InitRecent ==
    /\ tree = TwoProjects
    /\ cacheFile = NoFile
    /\ accessFile \in AccessInits
    /\ recording = FALSE
    /\ Idle

NextRecent ==
    \/ \E p \in Procs, limit \in Limits : GRP_Begin(p, limit)
    \/ \E p \in Procs : FPC_Check(p, "grp_find", "recent", RecentRoots)
    \/ \E p \in Procs : FPC_Load(p)
    \/ \E p \in Procs : FPC_Scan(p)
    \/ \E p \in Procs : GRP_Sort(p)
    \/ \E p \in Procs : GRP_Return(p)
    \/ \E p \in Procs, g \in Slots : GoMarshal(p, g)
    \/ \E p \in Procs, g \in Slots : GoOpen(p, g)
    \/ \E p \in Procs, g \in Slots : GoWrite(p, g)
    \/ \E p \in Procs : Exit(p)
    \/ Tick
    \/ Mutate

SpecRecent == InitRecent /\ [][NextRecent]_vars

----------------------------------------------------------------------------
(* pk recent, one call per invocation: GetRecentProjects over four          *)
(* projects, or over two that share an id, with the access file and the     *)
(* snapshot that earlier invocations left.  The invocation ends before its  *)
(* write-back goroutine gets to run.                                        *)

DocC == [EmptyDoc EXCEPT !.project.id = "c", !.consultant.ownership = "datakai"]
DocD == [EmptyDoc EXCEPT !.project.id = "d", !.consultant.ownership = "datakai"]

PathC == <<"scratch", 1>>

FourProjects == [r \in RootNames |->
                   IF r = "projects" THEN DirOf(<<TomlEntry(DocA), TomlEntry(DocB)>>)
                   ELSE IF r = "scratch" THEN DirOf(<<TomlEntry(DocC), TomlEntry(DocD)>>)
                   ELSE NoDir]
SharedId == [FourProjects EXCEPT !["scratch"] = DirOf(<<TomlEntry(DocA2), TomlEntry(DocD)>>)]

OrderWorlds == {FourProjects, SharedId}

\* the access files: none; one record; a, b and c accessed in any order, with or
\* without the record of a project that is not there any more
OrderAccess ==
    { NoAccessFile, AccessFileOf({AccessRecord("b", PathB, 1)}) }
    \cup { AccessFileOf({AccessRecord("a", PathA, t[1]), AccessRecord("b", PathB, t[2]),
                         AccessRecord("c", PathC, t[3])} \cup extra) :
             t \in {u \in [1..3 -> 1..3] : \A i, j \in 1..3 : u[i] = u[j] => i = j},
             extra \in {{}, {AccessRecord("ghost", <<"projects", 3>>, 4)}} }

\* the snapshots: none, or the one a scan of some tree left less than a minute ago
OrderSnapshots ==
    { NoFile }
    \cup { Written(NoFile, Marshal(FindProjects(RecentRoots, w).projects)) :
             w \in OrderWorlds }

OrderLimits == {-1, 0, 1, 2, 3, 4, 5}

InitOrder ==
    /\ tree \in OrderWorlds
    /\ cacheFile \in OrderSnapshots
    /\ accessFile \in OrderAccess
    /\ recording = FALSE
    /\ Idle

NextOrder ==
    \/ \E p \in Procs, limit \in OrderLimits : GRP_Begin(p, limit)
    \/ \E p \in Procs : FPC_Check(p, "grp_find", "recent", RecentRoots)
    \/ \E p \in Procs : FPC_Load(p)
    \/ \E p \in Procs : FPC_Scan(p)
    \/ \E p \in Procs : GRP_Sort(p)
    \/ \E p \in Procs : GRP_Return(p)
    \/ \E p \in Procs : Exit(p)

SpecOrder == InitOrder /\ [][NextOrder]_vars

----------------------------------------------------------------------------
(* The access tracker on its own, as the sessions of one shell drive it:    *)
(* RecordAccess for the selected project (pk session), LoadAccessRecords.   *)

\* the (id, path) of the projects a session can select: a project, the same id
\* found at another path, a second project, and one that was deleted later
Accesses == { <<"a", PathA>>, <<"a", <<"archive", 1>>>>, <<"b", PathB>>,
              <<"ghost", <<"projects", 3>>>> }

NextTrack ==
    \/ \E p \in Procs, a \in Accesses : RA_Load(p, a[1], a[2])
    \/ \E p \in Procs : RA_Open(p)
    \/ \E p \in Procs : RA_Write(p)
    \/ \E p \in Procs : LoadRecords(p)
    \/ Chmod

SpecTrack == Init /\ [][NextTrack]_vars

(* pk session in one shell: the cache and the access tracker side by side *)
BothAccesses == { <<"a", PathA>>, <<"ghost", <<"projects", 3>>>> }

NextBoth ==
    \/ Next
    \/ \E p \in Procs, a \in BothAccesses : RA_Load(p, a[1], a[2])
    \/ \E p \in Procs : RA_Open(p)
    \/ \E p \in Procs : RA_Write(p)

SpecBoth == Init /\ [][NextBoth]_vars

(* pk session while directories become unreadable: after a project of the  *)
(* same root, before one, or in a later root                                *)
LockedAfter == [OneProject EXCEPT !["projects"] = DirOf(<<TomlEntry(DocA), Unreadable>>)]
LockedBefore == [OneProject EXCEPT !["projects"] = DirOf(<<Unreadable, TomlEntry(DocA)>>)]

BlockedWorlds == {OneProject, TwoProjects, LockedArchive, LockedAfter, LockedBefore}

Reshape ==
    /\ \E w \in BlockedWorlds \ {tree} : tree' = w
    /\ UNCHANGED <<cacheFile, accessFile, pc, loc, ret, gor, scanlog, recording, disc, ent, cacheDir, now>>

NextBlocked ==
    \/ \E p \in Procs : FPC_Check(p, "main", "session", SessionRoots)
    \/ \E p \in Procs : FPC_Load(p)
    \/ \E p \in Procs : FPC_Scan(p)
    \/ \E p \in Procs, g \in Slots : GoMarshal(p, g)
    \/ \E p \in Procs, g \in Slots : GoOpen(p, g)
    \/ \E p \in Procs, g \in Slots : GoWrite(p, g)
    \/ \E p \in Procs : Exit(p)
    \/ Tick
    \/ Reshape

SpecBlocked == Init /\ [][NextBlocked]_vars

(* pk session and pk recent over one tree that does not change, with a      *)
(* project under each of projects, archive and scratch: the two commands    *)
(* pass different roots and share the snapshot                              *)
Everywhere == [r \in RootNames |->
                 IF r = "projects" THEN DirOf(<<TomlEntry(DocA)>>)
                 ELSE IF r = "archive" THEN DirOf(<<TomlEntry(DocB)>>)
                 ELSE IF r = "scratch" THEN DirOf(<<TomlEntry(DocC)>>)
                 ELSE NoDir]

InitRoots ==
    /\ tree = Everywhere
    /\ cacheFile = NoFile
    /\ accessFile \in AccessInits
    /\ recording = FALSE
    /\ Idle

NextRoots ==
    \/ \E p \in Procs : FPC_Check(p, "main", "session", SessionRoots)
    \/ \E p \in Procs, limit \in Limits : GRP_Begin(p, limit)
    \/ \E p \in Procs : FPC_Check(p, "grp_find", "recent", RecentRoots)
    \/ \E p \in Procs : FPC_Load(p)
    \/ \E p \in Procs : FPC_Scan(p)
    \/ \E p \in Procs : GRP_Sort(p)
    \/ \E p \in Procs : GRP_Return(p)
    \/ \E p \in Procs, g \in Slots : GoMarshal(p, g)
    \/ \E p \in Procs, g \in Slots : GoOpen(p, g)
    \/ \E p \in Procs, g \in Slots : GoWrite(p, g)
    \/ \E p \in Procs : Exit(p)
    \/ Tick

SpecRoots == InitRoots /\ [][NextRoots]_vars

(* pk session in two shell tabs at once: each tab looks the projects up and *)
(* records the access of its own project, while a second project appears   *)
Grow ==
    /\ tree = OneProject
    /\ tree' = TwoProjects
    /\ UNCHANGED <<cacheFile, accessFile, pc, loc, ret, gor, scanlog, recording, disc, ent, cacheDir, now>>

TabAccess == [tab1 |-> <<"a", PathA>>, tab2 |-> <<"b", PathB>>]

NextTabs ==
    \/ \E p \in Tabs : RA_Load(p, TabAccess[p][1], TabAccess[p][2])
    \/ \E p \in Tabs : RA_Open(p)
    \/ \E p \in Tabs : RA_Write(p)
    \/ \E p \in Tabs : FPC_Check(p, "main", "session", SessionRoots)
    \/ \E p \in Tabs : FPC_Load(p)
    \/ \E p \in Tabs : FPC_Scan(p)
    \/ \E p \in Tabs, g \in Slots : GoMarshal(p, g)
    \/ \E p \in Tabs, g \in Slots : GoOpen(p, g)
    \/ \E p \in Tabs, g \in Slots : GoWrite(p, g)
    \/ Grow

SpecTabs == Init /\ [][NextTabs]_vars

----------------------------------------------------------------------------
(* Discovery on its own: FindProjects called on any root list over any      *)
(* small tree.                                                              *)

DiscEntries == {TomlEntry(DocA), TomlEntry(DocB), TomlEntry(DocBad), Unreadable}

RECURSIVE SeqsUpTo(_, _)
SeqsUpTo(S, n) ==
    IF n = 0 THEN {<<>>}
    ELSE LET shorter == SeqsUpTo(S, n - 1)
         IN  shorter \cup {Append(q, x) : q \in shorter, x \in S}

DiscDirs == {NoDir} \cup {DirOf(w) : w \in SeqsUpTo(DiscEntries, MaxEntries)}

DiscRootNames == {"projects", "archive", "scratch"}

InitDisc ==
    /\ \E d \in DiscDirs :
          tree = [r \in RootNames |->
                    IF r = "projects" THEN d
                    ELSE IF r = "archive" THEN DirOf(<<TomlEntry(DocA2)>>)
                    ELSE NoDir]
    /\ cacheFile = NoFile
    /\ accessFile = NoAccessFile
    /\ recording = FALSE
    /\ Idle

Discover(roots) ==
    /\ ~disc.called
    /\ LET s == FindProjects(roots, tree)
       IN  disc' = [called |-> TRUE, roots |-> roots, err |-> s.err,
                    projects |-> s.projects]
    /\ UNCHANGED <<tree, cacheFile, accessFile, pc, loc, ret, gor, scanlog, recording, ent, cacheDir, now>>

NextDisc == \E roots \in SeqsUpTo(DiscRootNames, MaxRoots) : Discover(roots)

SpecDisc == InitDisc /\ [][NextDisc]_vars

----------------------------------------------------------------------------
(* One descriptor, loaded by a command: LoadProject decodes and migrates    *)
(* it, and the command shows it through the accessors (pk show); the        *)
(* migration applied once more to the loaded entity must find nothing to do.*)

MaxPartners == 2    \* length of the legacy partners list

NewConsultant ==
    [ownership |-> "datakai", client_name |-> "initech", client_type |-> "internal",
     partner |-> "pnew", my_role |-> "advisor", license_model |-> "mit"]

Consultants ==
    { EmptyDoc.consultant,
      NewConsultant,
      [EmptyDoc.consultant EXCEPT !.ownership = "datakai"] }

DataKais ==
    { EmptyDoc.datakai,
      [visibility |-> "public", scriptorium_project |-> "snew", conduit_graph |-> "gnew"] }

Ownerships ==
    { [primary |-> o, partners |-> ps, license_model |-> l, visibility |-> v] :
         o \in {"", "acme"}, ps \in SeqsUpTo({"p1", "p2"}, MaxPartners),
         l \in {"", "proprietary"}, v \in {"", "private"} }

Clients ==
    { [end_client |-> c, intermediary |-> i, my_role |-> r] :
         c \in {"", "globex"}, i \in {"", "westmonroe"}, r \in {"", "lead"} }

LinkSections ==
    { [scriptorium_project |-> sp, conduit_graph |-> cg] :
         sp \in {"", "sold"}, cg \in {"", "gold"} }

LoadDocs ==
    { [syntax |-> TRUE, project |-> [id |-> "alpha"], links |-> k, consultant |-> c,
       datakai |-> d, ownership |-> o, client |-> cl] :
         k \in LinkSections, c \in Consultants, d \in DataKais,
         o \in Ownerships, cl \in Clients }
    \cup {DocBad}

InitLoad ==
    /\ \E doc \in LoadDocs :
          tree = [r \in RootNames |-> IF r = "projects" THEN DirOf(<<TomlEntry(doc)>>)
                                      ELSE NoDir]
    /\ cacheFile = NoFile
    /\ accessFile = NoAccessFile
    /\ recording = FALSE
    /\ Idle

\* the descriptor under ~/projects
TheDoc == tree["projects"].walk[1].doc

Load ==
    /\ ent.stage = "none"
    /\ LET l == LoadProject(TomlPath("projects", 1), TheDoc)
       IN  ent' = IF l.err THEN [ent EXCEPT !.stage = "failed"]
                  ELSE [ent EXCEPT !.stage = "loaded", !.project = l.project]
    /\ UNCHANGED <<tree, cacheFile, accessFile, pc, loc, ret, gor, scanlog, recording, disc, cacheDir, now>>

Remigrate ==
    /\ ent.stage = "loaded"
    /\ ent' = [ent EXCEPT !.stage = "remigrated",
                          !.project = <<migrateSchema(ent.project[1])>>]
    /\ UNCHANGED <<tree, cacheFile, accessFile, pc, loc, ret, gor, scanlog, recording, disc, cacheDir, now>>

\* printDetailedProject
Show ==
    /\ ent.stage = "loaded"
    /\ LET p == ent.project[1]
       IN  ent' = [ent EXCEPT !.stage = "shown",
                              !.view = [Owner |-> GetOwner(p),
                                        LicenseModel |-> GetLicenseModel(p),
                                        ClientName |-> GetClientName(p),
                                        Partner |-> GetPartner(p),
                                        MyRole |-> GetMyRole(p),
                                        Partners |-> GetPartners(p)]]
    /\ UNCHANGED <<tree, cacheFile, accessFile, pc, loc, ret, gor, scanlog, recording, disc, cacheDir, now>>

NextLoad == Load \/ Remigrate \/ Show

SpecLoad == InitLoad /\ [][NextLoad]_vars

----------------------------------------------------------------------------
(* The snapshot on its own: a list of entities as a scan returns it is      *)
(* saved by SaveToCache and read back by LoadFromCache.  One directory has  *)
(* a name that is not valid UTF-8, which a Linux file system allows.        *)
MaxList == 2    \* length of the saved list

RawPath == <<"projects", 3, "0xE9", ".project.toml">>

TripPaths == {TomlPath("projects", 1), TomlPath("archive", 1), RawPath}

TripDocs ==
    { DocA, DocB,
      [EmptyDoc EXCEPT !.project.id = "c", !.ownership.partners = <<"p1", "p2">>,
                       !.ownership.license_model = "proprietary",
                       !.client.end_client = "globex", !.client.my_role = "lead"],
      [EmptyDoc EXCEPT !.project.id = "d", !.client.intermediary = "westmonroe",
                       !.links.scriptorium_project = "sold"] }

TripEntities == {LoadProject(path, doc).project[1] : path \in TripPaths, doc \in TripDocs}

TripLists == SeqsUpTo(TripEntities, MaxList)

\* config.FindProjects has returned the list P
Collect ==
    /\ ~disc.called
    /\ \E P \in TripLists :
          disc' = [called |-> TRUE, roots |-> <<>>, err |-> FALSE, projects |-> P]
    /\ UNCHANGED <<tree, cacheFile, accessFile, pc, loc, ret, gor, scanlog, recording, ent, cacheDir, now>>

\* SaveToCache(P), run to its end
Save ==
    /\ disc.called
    /\ ~cacheFile.exists
    /\ ~GetCacheFile(cacheDir).err
    /\ cacheFile' = Written(Truncated, Marshal(disc.projects))
    /\ UNCHANGED <<tree, accessFile, pc, loc, ret, gor, scanlog, recording, disc, ent, cacheDir, now>>

\* LoadFromCache
LoadBack(p) ==
    /\ pc[p] = "main"
    /\ ret[p].op = "none"
    /\ LET l == IF GetCacheFile(cacheDir).err THEN [err |-> TRUE, projects |-> <<>>]
                ELSE LoadFromCache(cacheFile)
       IN  ret' = [ret EXCEPT ![p] = [NoRet EXCEPT !.op = "LoadFromCache", !.err = l.err,
                                                   !.projects = l.projects,
                                                   !.src = IF cacheFile.exists
                                                           THEN "cache" ELSE ""]]
    /\ UNCHANGED <<tree, cacheFile, accessFile, pc, loc, gor, scanlog, recording, disc, ent, cacheDir, now>>

NextTrip == Collect \/ Save \/ (\E p \in Procs : LoadBack(p))

SpecTrip == Init /\ [][NextTrip]_vars

----------------------------------------------------------------------------
(* What the claims are stated with *)

\* the object o of a snapshot is the entity e, exported field by exported field
SameEntity(o, e) ==
    /\ o.Path = e.Path
    /\ o.ProjectInfo = e.ProjectInfo
    /\ o.Links = e.Links
    /\ o.Consultant = e.Consultant
    /\ o.DataKai = e.DataKai
    /\ o.LegacyOwnership = e.LegacyOwnership
    /\ o.LegacyClient = e.LegacyClient

\* the bytes data are the serialization of exactly the list projects, in its order
Holds(data, projects) ==
    IF Len(projects) = 0
    THEN data = <<Chunk("null", <<>>)>>
    ELSE /\ Len(data) = Len(projects) + 2
         /\ data[1].t = "["
         /\ data[Len(data)].t = "]"
         /\ \A i \in 1..Len(projects) :
               data[i + 1].t = "obj" /\ SameEntity(data[i + 1].v[1], projects[i])

\* the snapshot exists and is younger than 5 minutes
Fresh(f) == f.exists /\ f.age < 5

\* the snapshot exists and is a complete JSON array or null
Decodable(f) ==
    /\ f.exists
    /\ \/ f.data = <<Chunk("null", <<>>)>>
       \/ /\ Len(f.data) >= 2
          /\ f.data[1].t = "["
          /\ f.data[Len(f.data)].t = "]"
          /\ \A i \in 2..(Len(f.data) - 1) : f.data[i].t = "obj"

\* the main goroutine of p enters FindProjectsCached in this step
Calls(p) == pc[p] \in {"main", "grp_find"} /\ pc'[p] \in {"fpc_load", "fpc_scan"}

\* the main goroutine of p takes its step out of LoadFromCache / out of the scan
Loads(p) == pc[p] = "fpc_load" /\ pc'[p] # "fpc_load"
Scans(p) == pc[p] = "fpc_scan" /\ pc'[p] # "fpc_scan"

\* C1: IsCacheValid is true exactly when the snapshot exists and is younger than
\* 5 minutes: FindProjectsCached tries the snapshot exactly then, the snapshot is
\* valid right after a write that was not unlinked meanwhile, and Status agrees.
C1_Validity ==
    [][ /\ \A p \in Procs : Calls(p) => (pc'[p] = "fpc_load" <=> Fresh(cacheFile))
        /\ \A p \in Procs, g \in Slots :
              (GoWrite(p, g) /\ ~gor[p][g].orphan) => IsCacheValid(cacheFile')
        /\ IsCacheValid(cacheFile) <=> Fresh(cacheFile)
        /\ Status(cacheFile).valid <=> Fresh(cacheFile) ]_vars

\* a call finds a snapshot exactly 5 minutes old and goes to scan
C1_Witness ==
    \E p \in Procs : pc[p] = "fpc_scan" /\ Decodable(cacheFile) /\ cacheFile.age = 5

\* C2: with a valid snapshot the call goes to the snapshot, and a decodable
\* snapshot is returned as it is, in order, with no scan, no write-back started
\* and the file (content and age) untouched.
C2_CacheHit ==
    [][ \A p \in Procs :
          /\ (Calls(p) /\ Fresh(cacheFile)) => pc'[p] = "fpc_load"
          /\ Calls(p) => UNCHANGED <<cacheFile, gor, scanlog>>
          /\ (Loads(p) /\ Decodable(cacheFile)) =>
                /\ pc'[p] = "main"
                /\ ret'[p].op = "FindProjectsCached"
                /\ ~ret'[p].err
                /\ ret'[p].src = "cache"
                /\ Holds(cacheFile.data, ret'[p].projects)
                /\ \A i \in 1..Len(ret'[p].projects) : ~ret'[p].projects[i].migrated
                /\ UNCHANGED <<cacheFile, gor, scanlog>> ]_vars

\* a two-project list was served from the snapshot
C2_Witness ==
    \E p \in Procs : ret[p].src = "cache" /\ Len(ret[p].projects) = 2

\* C3: with no valid snapshot, or one that does not decode, the call scans,
\* returns what the scan gives and starts a write-back of that list; the only
\* error it returns is the scan's.
C3_Fallback ==
    [][ \A p \in Procs :
          /\ (Calls(p) /\ ~Fresh(cacheFile)) => pc'[p] = "fpc_scan"
          /\ (Loads(p) /\ ~Decodable(cacheFile)) =>
                pc'[p] = "fpc_scan" /\ UNCHANGED <<ret, cacheFile, gor>>
          /\ Scans(p) =>
                LET s == FindProjects(loc[p].roots, tree)
                IN  /\ pc'[p] = "main"
                    /\ ret'[p].src = "scan"
                    /\ ret'[p].err = s.err
                    /\ ret'[p].projects = s.projects
                    /\ UNCHANGED cacheFile
                    /\ IF s.err THEN UNCHANGED gor
                       ELSE \E g \in Slots :
                               /\ gor[p][g].kind = "none"
                               /\ gor'[p][g].kind = "writeback"
                               /\ gor'[p][g].arr = ret'[p].projects
                               /\ \A h \in Slots \ {g} : gor'[p][h] = gor[p][h]
          /\ ret'[p].err => ret'[p].src = "scan" ]_vars

\* a call found a young snapshot that does not decode and went on to scan
C3_Witness ==
    \E p \in Procs : pc[p] = "fpc_scan" /\ Fresh(cacheFile) /\ ~Decodable(cacheFile)

\* C6: InvalidateCache removes the snapshot and returns nil: afterwards the
\* snapshot is absent, invalid and reported "not built"; on an absent snapshot
\* it changes nothing; and an absent snapshot reappears only when a writer
\* opens it.
C6_Invalidate ==
    [][ /\ \A p \in Procs :
              InvalidateCache(p) =>
                 /\ ~cacheFile'.exists
                 /\ ~IsCacheValid(cacheFile')
                 /\ Status(cacheFile').text = "Cache: not built"
                 /\ ~ret'[p].err
                 /\ ~cacheFile.exists => UNCHANGED <<cacheFile, gor, tree, accessFile>>
        /\ (Status(cacheFile).text = "Cache: not built") <=> ~cacheFile.exists
        /\ (~cacheFile.exists /\ cacheFile'.exists) =>
              \E p \in Procs, g \in Slots : GoOpen(p, g) ]_vars

\* InvalidateCache has just returned and the snapshot is gone
C6_Witness ==
    \E p \in Procs : ret[p].op = "InvalidateCache" /\ ~cacheFile.exists

\* the main goroutine of p returns a list from FindProjectsCached in this step
Serves(p) == (Loads(p) \/ Scans(p)) /\ pc'[p] = "main" /\ ~ret'[p].err

\* C4: whenever FindProjectsCached returns a list (from a scan, or from a
\* snapshot that is still valid as it is read), some scan taken at most
\* 5 minutes earlier gave exactly that list, whatever the interleaving of
\* write-backs.
C4_BoundedStaleness ==
    [][ \A p \in Procs :
          (Serves(p) /\ (ret'[p].src = "cache" => Fresh(cacheFile))) =>
             \E e \in scanlog' : e.data = Marshal(ret'[p].projects) /\ e.age <= 5 ]_vars

\* C5: when InvalidateCache was the last call to return, the list the next
\* FindProjectsCached returns is the result of a scan begun after it.
C5_ScanAfterInvalidate ==
    [][ \A p \in Procs :
          (Serves(p) /\ ret[p].op = "InvalidateCache") =>
             \E e \in scanlog' : e.data = Marshal(ret'[p].projects) /\ ~e.invalidated ]_vars

\* the bytes data hold a list made of the entities of projects, each exactly once
HoldsEachOnce(data, projects) ==
    IF Len(projects) = 0
    THEN data = <<Chunk("null", <<>>)>>
    ELSE /\ Len(data) = Len(projects) + 2
         /\ data[1].t = "["
         /\ data[Len(data)].t = "]"
         /\ \A i \in 1..Len(projects) :
               Cardinality({k \in 2..(Len(data) - 1) :
                              data[k].t = "obj" /\ SameEntity(data[k].v[1], projects[i])}) = 1

\* C7: FindProjectsCached returns from a scan before its write-back has done
\* anything; when the write-back then completes with nothing else touching the
\* file, the snapshot is valid and holds the returned list; a process that
\* exits takes its write-backs with it and leaves the file as it was.
C7_FireAndForget ==
    [][ \A p \in Procs :
          /\ (Scans(p) /\ ~(pc'[p] = "main" /\ ret'[p].err)) =>
                /\ UNCHANGED cacheFile
                /\ \E g \in Slots :
                      /\ gor[p][g].kind = "none"
                      /\ gor'[p][g].kind = "writeback"
                      /\ gor'[p][g].pc = "marshal"
                      /\ gor'[p][g].scanned = IF pc'[p] = "main" THEN ret'[p].projects
                                              ELSE loc'[p].projects
          /\ \A g \in Slots :
                (GoWrite(p, g) /\ gor[p][g].kind = "writeback"
                               /\ ~gor[p][g].orphan /\ cacheFile.data = <<>>) =>
                   /\ Fresh(cacheFile')
                   /\ HoldsEachOnce(cacheFile'.data, gor[p][g].scanned)
          /\ Exit(p) =>
                /\ UNCHANGED cacheFile
                /\ \A g \in Slots : gor'[p][g].kind = "none" ]_vars

C9_WholesaleWrite ==
    [][ \A p \in Procs, g \in Slots :
          (GoWrite(p, g) /\ ~gor[p][g].orphan) =>
             /\ Decodable(cacheFile')
             /\ HoldsEachOnce(cacheFile'.data, gor[p][g].scanned) ]_vars

\* C10: FindProjects gives one entity for every descriptor that parses under
\* every listed root that exists, as often as the root is listed and with no
\* merging of equal ids; a missing root and a descriptor that does not parse
\* contribute nothing and are no error.
C10_Discovery ==
    disc.called =>
       LET R == disc.roots
           Existing == {k \in 1..Len(R) : tree[R[k]].exists}
           blocked == \E k \in Existing : \E i \in 1..Len(tree[R[k]].walk) :
                         tree[R[k]].walk[i].kind = "unreadable"
           Hits == {h \in Existing \X (1..MaxEntries + 1) :
                      /\ h[2] <= Len(tree[R[h[1]]].walk)
                      /\ tree[R[h[1]]].walk[h[2]].kind = "toml"
                      /\ tree[R[h[1]]].walk[h[2]].doc.syntax}
       IN  /\ disc.err <=> blocked
           /\ ~blocked =>
                 /\ Len(disc.projects) = Cardinality(Hits)
                 /\ \A h \in Hits :
                       Cardinality({n \in 1..Len(disc.projects) :
                                      disc.projects[n].Path = <<R[h[1]], h[2]>>})
                          = Cardinality({k \in Existing : R[k] = R[h[1]]})
                 /\ \A n \in 1..Len(disc.projects) : \E h \in Hits :
                       <<disc.projects[n]>> =
                          LoadProject(<<R[h[1]], h[2], ".project.toml">>,
                                      tree[R[h[1]]].walk[h[2]].doc).project

\* two descriptors with the same id under two roots, a missing root and a
\* malformed descriptor in the list: two entities, no error
C10_Witness ==
    /\ disc.called
    /\ ~disc.err
    /\ \E k \in 1..Len(disc.roots) : ~tree[disc.roots[k]].exists
    /\ \E i \in 1..Len(tree["projects"].walk) : ~tree["projects"].walk[i].doc.syntax
    /\ Len(disc.projects) = 2
    /\ disc.projects[1].ProjectInfo.ID = disc.projects[2].ProjectInfo.ID
    /\ disc.projects[1].Path # disc.projects[2].Path

\* the entity LoadProject gave for TheDoc
Loaded == ent.project[1]

\* C11: GetOwner of a loaded entity is the descriptor's [consultant].ownership
\* when that is set, otherwise its [ownership].primary, otherwise "".
C11_NewWins ==
    ent.stage = "shown" =>
       ent.view.Owner = IF TheDoc.consultant.ownership # ""
                        THEN TheDoc.consultant.ownership
                        ELSE TheDoc.ownership.primary

\* C12: a descriptor whose [ownership] has a visibility loads to an entity whose
\* DataKai.Visibility is that value, with or without ownership.primary.
C12_VisibilityMoved ==
    (ent.stage = "loaded" /\ TheDoc.ownership.visibility # "") =>
       Loaded.DataKai.Visibility = TheDoc.ownership.visibility

\* the descriptor of the example: a legacy owner and visibility, nothing else
AlphaDoc ==
    [EmptyDoc EXCEPT !.project.id = "alpha", !.ownership.primary = "acme",
                     !.ownership.visibility = "private"]

\* C13 as stated: with a legacy primary, loading gives Consultant.Ownership =
\* primary, Consultant.LicenseModel = legacy license model and, when the legacy
\* partners list is non-empty, Consultant.Partner = its first element.
C13_AsStated ==
    (ent.stage = "loaded" /\ TheDoc.ownership.primary # "") =>
       /\ Loaded.Consultant.Ownership = TheDoc.ownership.primary
       /\ Loaded.Consultant.LicenseModel = TheDoc.ownership.license_model
       /\ Len(TheDoc.ownership.partners) > 0 =>
             Loaded.Consultant.Partner = TheDoc.ownership.partners[1]

\* C13 (amended): with a legacy primary, loading gives Consultant.Ownership =
\* primary and Consultant.LicenseModel = legacy license model; Consultant.Partner
\* is the first legacy partner when the list is non-empty and the legacy [client]
\* has no intermediary; the example descriptor loads as stated.
C13_OwnershipMigration ==
    (ent.stage = "loaded" /\ TheDoc.ownership.primary # "") =>
       /\ Loaded.Consultant.Ownership = TheDoc.ownership.primary
       /\ Loaded.Consultant.LicenseModel = TheDoc.ownership.license_model
       /\ (Len(TheDoc.ownership.partners) > 0 /\ TheDoc.client.intermediary = "") =>
             Loaded.Consultant.Partner = TheDoc.ownership.partners[1]
       /\ TheDoc = AlphaDoc =>
             /\ Loaded.Consultant.Ownership = "acme"
             /\ Loaded.DataKai.Visibility = "private"
             /\ Loaded.Links.ScriptoriumProject = ""

\* a descriptor with a legacy primary, two legacy partners, no intermediary and a
\* new-schema partner of its own has been loaded
C13_Witness ==
    /\ ent.stage = "loaded"
    /\ TheDoc.ownership.primary = "acme"
    /\ TheDoc.ownership.partners = <<"p2", "p1">>
    /\ TheDoc.client.intermediary = ""
    /\ TheDoc.consultant.partner = "pnew"
    /\ Loaded.Consultant.Partner = "p2"

\* C14: with a legacy end-client or intermediary, loading gives ClientName =
\* end-client and MyRole = legacy role; with an intermediary Partner = intermediary
\* and ClientType = "partner", otherwise ClientType = "direct".
C14_ClientMigration ==
    (/\ ent.stage = "loaded"
     /\ (TheDoc.client.end_client # "" \/ TheDoc.client.intermediary # "")) =>
       /\ Loaded.Consultant.ClientName = TheDoc.client.end_client
       /\ Loaded.Consultant.MyRole = TheDoc.client.my_role
       /\ Loaded.Consultant.ClientType \in {"partner", "direct"}
       /\ Loaded.Consultant.ClientType = "partner" <=> TheDoc.client.intermediary # ""
       /\ TheDoc.client.intermediary # "" =>
             Loaded.Consultant.Partner = TheDoc.client.intermediary

\* a descriptor with an intermediary, legacy partners and a new-schema client
\* type of its own has been loaded: the intermediary is the partner
C14_Witness ==
    /\ ent.stage = "loaded"
    /\ TheDoc.client.intermediary = "westmonroe"
    /\ TheDoc.client.end_client = ""
    /\ Len(TheDoc.ownership.partners) > 0
    /\ TheDoc.ownership.primary # ""
    /\ TheDoc.consultant.client_type = "internal"
    /\ Loaded.Consultant.Partner = "westmonroe"
    /\ Loaded.Consultant.ClientType = "partner"

\* C15: a scriptorium_project or conduit_graph given under [links] is, after
\* loading, the value of DataKai.ScriptoriumProject resp. DataKai.ConduitGraph,
\* whatever the legacy ownership and client sections hold.
C15_LinksRelocated ==
    ent.stage = "loaded" =>
       /\ TheDoc.links.scriptorium_project # "" =>
             Loaded.DataKai.ScriptoriumProject = TheDoc.links.scriptorium_project
       /\ TheDoc.links.conduit_graph # "" =>
             Loaded.DataKai.ConduitGraph = TheDoc.links.conduit_graph

\* a descriptor with both links, no legacy ownership or client, and [datakai]
\* values of its own has been loaded
C15_Witness ==
    /\ ent.stage = "loaded"
    /\ TheDoc.links.scriptorium_project = "sold"
    /\ TheDoc.links.conduit_graph = "gold"
    /\ TheDoc.ownership.primary = ""
    /\ TheDoc.client.end_client = ""
    /\ TheDoc.client.intermediary = ""
    /\ TheDoc.datakai.scriptorium_project = "snew"
    /\ Loaded.DataKai.ScriptoriumProject = "sold"
    /\ Loaded.DataKai.ConduitGraph = "gold"

\* C16: migration is idempotent: running migrateSchema on an entity that
\* LoadProject has already migrated changes none of its fields.
C16_Idempotent ==
    [][(ent.stage = "loaded" /\ ent'.stage = "remigrated") => ent'.project = ent.project]_vars

\* migrateSchema has run a second time on an entity with legacy ownership,
\* legacy client, link sub-fields and new-schema values of its own
C16_Witness ==
    /\ ent.stage = "remigrated"
    /\ TheDoc.ownership.primary = "acme"
    /\ Len(TheDoc.ownership.partners) = 2
    /\ TheDoc.client.intermediary = "westmonroe"
    /\ TheDoc.links.scriptorium_project = "sold"
    /\ TheDoc.consultant = NewConsultant
    /\ ent.project[1].migrated
    /\ ent.project[1].Consultant.Partner = "westmonroe"

\* C17: migration never replaces a non-empty canonical value by an empty
\* legacy value: a canonical field that the descriptor sets keeps its value
\* through loading whenever the corresponding legacy field is empty.
C17_NoEmptyOverwrite ==
    ent.stage = "loaded" =>
       LET c == TheDoc.consultant
           d == TheDoc.datakai
           o == TheDoc.ownership
           cl == TheDoc.client
       IN  /\ (c.ownership # "" /\ o.primary = "") =>
                 Loaded.Consultant.Ownership = c.ownership
           /\ (c.license_model # "" /\ o.license_model = "") =>
                 Loaded.Consultant.LicenseModel = c.license_model
           /\ (c.partner # "" /\ Len(o.partners) = 0 /\ cl.intermediary = "") =>
                 Loaded.Consultant.Partner = c.partner
           /\ (c.client_name # "" /\ cl.end_client = "") =>
                 Loaded.Consultant.ClientName = c.client_name
           /\ (c.my_role # "" /\ cl.my_role = "") =>
                 Loaded.Consultant.MyRole = c.my_role
           /\ (c.client_type # "" /\ cl.end_client = "" /\ cl.intermediary = "") =>
                 Loaded.Consultant.ClientType = c.client_type
           /\ (d.visibility # "" /\ o.visibility = "") =>
                 Loaded.DataKai.Visibility = d.visibility
           /\ (d.scriptorium_project # "" /\ TheDoc.links.scriptorium_project = "") =>
                 Loaded.DataKai.ScriptoriumProject = d.scriptorium_project
           /\ (d.conduit_graph # "" /\ TheDoc.links.conduit_graph = "") =>
                 Loaded.DataKai.ConduitGraph = d.conduit_graph

\* C18: for a descriptor with no legacy primary, no legacy end-client or
\* intermediary and no DataKai sub-fields under [links], migration is a no-op:
\* the loaded entity equals the decoded descriptor field for field.
C18_NoOp ==
    (/\ ent.stage = "loaded"
     /\ TheDoc.ownership.primary = ""
     /\ TheDoc.client.end_client = ""
     /\ TheDoc.client.intermediary = ""
     /\ TheDoc.links.scriptorium_project = ""
     /\ TheDoc.links.conduit_graph = "")
    => Loaded = Decode(TheDoc, <<"projects", 1>>)

\* a descriptor with [consultant] and [datakai] values and no legacy or link
\* values has been loaded
C18_Witness ==
    /\ ent.stage = "loaded"
    /\ TheDoc.consultant = NewConsultant
    /\ TheDoc.datakai.visibility = "public"
    /\ TheDoc.ownership = EmptyDoc.ownership
    /\ TheDoc.client = EmptyDoc.client
    /\ TheDoc.links = EmptyDoc.links
    /\ Loaded.Consultant.Ownership = "datakai"
    /\ ~Loaded.migrated

\* the first of the given values that is not empty, "" when there is none
RECURSIVE FirstSet(_)
FirstSet(vals) ==
    IF vals = <<>> THEN ""
    ELSE IF Head(vals) # "" THEN Head(vals)
    ELSE FirstSet(Tail(vals))

\* C19: on a loaded entity each accessor gives the canonical Consultant field
\* when it is non-empty, otherwise the corresponding legacy field (for the
\* partner: the first legacy partner, then the legacy intermediary), otherwise
\* ""; GetPartners gives the canonical partner alone when it is set, otherwise
\* the legacy partners list.
C19_AccessorFallback ==
    ent.stage = "shown" =>
       LET c == Loaded.Consultant
           lo == Loaded.LegacyOwnership
           lc == Loaded.LegacyClient
       IN  /\ ent.view.Owner = FirstSet(<<c.Ownership, lo.Primary>>)
           /\ ent.view.LicenseModel = FirstSet(<<c.LicenseModel, lo.LicenseModel>>)
           /\ ent.view.ClientName = FirstSet(<<c.ClientName, lc.EndClient>>)
           /\ ent.view.Partner =
                 FirstSet(<<c.Partner, IF lo.Partners # <<>> THEN Head(lo.Partners)
                                       ELSE lc.Intermediary>>)
           /\ ent.view.MyRole = FirstSet(<<c.MyRole, lc.MyRole>>)
           /\ c.Partner # "" => ent.view.Partners = <<c.Partner>>
           /\ c.Partner = "" => ent.view.Partners = lo.Partners

\* an entity without a canonical partner and role but with a legacy partners
\* list and a legacy role has been shown
C19_Witness ==
    /\ ent.stage = "shown"
    /\ Loaded.Consultant.Partner = ""
    /\ Loaded.Consultant.MyRole = ""
    /\ Loaded.Consultant.Ownership = "datakai"
    /\ Loaded.LegacyOwnership.Partners = <<"p2", "p1">>
    /\ Loaded.LegacyClient.MyRole = "lead"
    /\ ent.view.Partner = "p2"
    /\ ent.view.Partners = <<"p2", "p1">>
    /\ ent.view.MyRole = "lead"
    /\ ent.view.Owner = "datakai"

\* C20: legacy values are never persisted: every object of the snapshot file
\* carries empty legacy ownership and client sections, also for an entity that
\* was loaded from a legacy-layout descriptor.
C20_NoLegacyPersisted ==
    \A i \in 1..Len(cacheFile.data) :
       cacheFile.data[i].t = "obj" =>
          LET o == cacheFile.data[i].v[1]
          IN  /\ o.LegacyOwnership = Decode(EmptyDoc, <<>>).LegacyOwnership
              /\ o.LegacyClient = Decode(EmptyDoc, <<>>).LegacyClient

\* the main goroutine of p returns from FindProjectsCached in this step
Returns(p) ==
    /\ pc[p] \in {"fpc_load", "fpc_scan"}
    /\ pc'[p] = "main"
    /\ ret'[p].op = "FindProjectsCached"

\* C21 as stated: when GetCacheFile fails, FindProjectsCached reports an error
\* to its caller.
C21_AsStated ==
    [][ \A p \in Procs : (Returns(p) /\ ~cacheDir) => ret'[p].err ]_vars

\* C21: when GetCacheFile fails, FindProjectsCached does not use the snapshot:
\* it returns what the scan of its roots gives, and reports an error exactly
\* when the scan fails.
C21_FallsBackToScan ==
    [][ \A p \in Procs :
          (Returns(p) /\ ~cacheDir) =>
             LET s == FindProjects(loc[p].roots, tree)
             IN  /\ pc[p] = "fpc_scan"
                 /\ ret'[p].src = "scan"
                 /\ ret'[p].err = s.err
                 /\ ret'[p].projects = s.projects ]_vars

\* a call that could not resolve the snapshot's path is about to scan, with no
\* error to come, while a young, decodable snapshot sits in the directory
C21_Witness ==
    \E p \in Procs :
       /\ pc[p] = "fpc_scan"
       /\ ~cacheDir
       /\ Fresh(cacheFile) /\ Decodable(cacheFile)
       /\ ~FindProjects(loc[p].roots, tree).err

\* the mapping the access file holds, when it decodes
Stored(f) == LoadAccessRecords(f).records

\* the project ids a mapping has records for
IdsOf(records) == {r.ProjectID : r \in records}

C25_MissingIsEmpty ==
    [][ \A p \in Procs :
          (cacheDir /\ ~accessFile.exists) =>
             /\ (pc[p] = "main" /\ ret'[p] # ret[p]) =>
                   (ret'[p].op = "LoadAccessRecords" /\ ~ret'[p].err
                    /\ ret'[p].records = {} /\ accessFile' = accessFile)
             /\ (pc[p] = "main" /\ pc'[p] # "main") =>
                   (pc'[p] = "ra_save" /\ loc'[p].records = {}
                    /\ accessFile' = accessFile) ]_vars

\* LoadAccessRecords has returned an empty mapping and no error, and there is
\* still no access file
C25_Witness ==
    /\ ~accessFile.exists
    /\ \E p \in Procs : /\ ret[p].op = "LoadAccessRecords" /\ ~ret[p].err
                        /\ ret[p].records = {}

\* how often x occurs in seq, and whether two lists hold the same elements as
\* often
Count(seq, x) == Cardinality({i \in DOMAIN seq : seq[i] = x})
SameBag(a, b) ==
    /\ Len(a) = Len(b)
    /\ \A i \in DOMAIN a : Count(a, a[i]) = Count(b, a[i])

\* whether project e has an access record, and its time
Accessed(records, e) == Has(records, e.ProjectInfo.ID)
TimeOf(records, e) == Get(records, e.ProjectInfo.ID).LastAccessed

\* GetRecentProjects of p receives the list of FindProjectsCached / sorts / returns
Receives(p) == pc[p] \in {"fpc_load", "fpc_scan"} /\ pc'[p] = "grp_sort"
Sorts(p) == pc[p] = "grp_sort" /\ pc'[p] = "grp_sort"
Finishes(p) == pc[p] = "grp_sort" /\ pc'[p] = "main"

\* the list GetRecentProjects sorts is the one FindProjectsCached gave it, and
\* sorting only rearranges it
Permutes(p) ==
    /\ (Receives(p) /\ pc[p] = "fpc_load") =>
          loc'[p].projects = LoadFromCache(cacheFile).projects
    /\ (Receives(p) /\ pc[p] = "fpc_scan") =>
          loc'[p].projects = FindProjects(loc[p].roots, tree).projects
    /\ Sorts(p) => SameBag(loc[p].projects, loc'[p].projects)
    /\ (Finishes(p) /\ loc[p].limit <= 0) => ret'[p].projects = loc[p].projects

\* with a limit of 2 on three or more projects, two of them accessed, the
\* result is the most recently accessed project, then the next
TopTwo(p) ==
    LET S == loc[p].projects
        R == loc[p].records
        out == ret'[p].projects
    IN  (/\ Finishes(p) /\ loc[p].limit = 2 /\ Len(S) >= 3
         /\ \E i, j \in DOMAIN S : /\ Accessed(R, S[i]) /\ Accessed(R, S[j])
                                   /\ S[i].ProjectInfo.ID # S[j].ProjectInfo.ID)
        => /\ Len(out) = 2
           /\ Accessed(R, out[1]) /\ Accessed(R, out[2])
           /\ \A i \in DOMAIN S :
                 Accessed(R, S[i]) => TimeOf(R, out[1]) >= TimeOf(R, S[i])
           /\ \A i \in DOMAIN S :
                 (Accessed(R, S[i]) /\ S[i].ProjectInfo.ID # out[1].ProjectInfo.ID) =>
                    TimeOf(R, out[2]) >= TimeOf(R, S[i])

AccessedIn(records, seq) == Cardinality({i \in DOMAIN seq : Accessed(records, seq[i])})

\* C24: the result is the first min(limit, n) elements of the sorted list when
\* limit > 0 and the whole list when limit <= 0; so a limit that does not exceed
\* the number of accessed projects leaves every never-accessed project out, and
\* the unlimited result has them after all accessed ones.
C24_Limit ==
    [][ \A p \in Procs :
          Finishes(p) =>
             LET S == loc[p].projects
                 R == loc[p].records
                 k == loc[p].limit
                 n == Len(S)
                 out == ret'[p].projects
             IN  /\ ret'[p].op = "GetRecentProjects" /\ ~ret'[p].err
                 /\ k > 0 => out = SubSeq(S, 1, IF k < n THEN k ELSE n)
                 /\ k <= 0 => (out = S /\ Len(out) = n)
                 /\ (k > 0 /\ k <= AccessedIn(R, S)) =>
                       \A i \in DOMAIN out : Accessed(R, out[i])
                 /\ k <= 0 =>
                       \A i, j \in DOMAIN out :
                          (i < j /\ Accessed(R, out[j])) => Accessed(R, out[i]) ]_vars

\* with a, b and c accessed and d never, a call limited to 3 has returned the
\* three accessed projects and left d out
C24_Witness ==
    /\ tree = FourProjects
    /\ IdsOf(Stored(accessFile)) \cap {"a", "b", "c", "d"} = {"a", "b", "c"}
    /\ \E p \in Procs :
          /\ ret[p].op = "GetRecentProjects" /\ ~ret[p].err
          /\ Len(ret[p].projects) = 3
          /\ {ret[p].projects[i].ProjectInfo.ID : i \in 1..3} = {"a", "b", "c"}

\* the step is one of p's RecordAccess: its load, its open or its write
RecordsAccess(p) ==
    \/ pc[p] = "main" /\ pc'[p] = "ra_save"
    \/ pc[p] = "main" /\ ret'[p] # ret[p] /\ ret'[p].op = "RecordAccess"
    \/ pc[p] \in {"ra_save", "ra_write"} /\ pc'[p] # pc[p]

\* C26: only RecordAccess changes the access file: no step of
\* FindProjectsCached, of a write-back or rebuild goroutine, of InvalidateCache,
\* and no passing of time does; RecordAccess leaves the snapshot and its age
\* alone; and a RecordAccess that succeeds keeps every id the file had, also
\* the ids of projects that are not discovered.
C26_Independent ==
    [][ /\ accessFile' # accessFile => \E p \in Procs : RecordsAccess(p)
        /\ \A p \in Procs :
              /\ RecordsAccess(p) => cacheFile' = cacheFile
              /\ (pc[p] = "main" /\ pc'[p] = "ra_save") =>
                    (accessFile' = accessFile /\ loc'[p].records = Stored(accessFile))
              /\ (pc[p] = "ra_write" /\ pc'[p] = "main") =>
                    /\ ~LoadAccessRecords(accessFile').err
                    /\ IdsOf(loc[p].records) \subseteq IdsOf(Stored(accessFile'))
                    /\ \A r \in loc[p].records :
                          r.ProjectID # loc[p].id => r \in Stored(accessFile') ]_vars

\* the snapshot has expired, and the access file holds the records of a and of
\* a project that is not discovered
C26_Witness ==
    /\ IdsOf(Stored(accessFile)) = {"a", "ghost"}
    /\ cacheFile.exists /\ ~Fresh(cacheFile) /\ Decodable(cacheFile)
    /\ \A p \in Procs : pc[p] = "main"

\* the step is the write of p's RecordAccess
WritesAccess(p) == pc[p] = "ra_write" /\ pc'[p] = "main"

\* the step is the write of the write-back goroutine g of p
WritesSnapshot(p, g) ==
    /\ gor[p][g].pc = "write" /\ gor'[p][g].pc # "write"
    /\ ~gor[p][g].orphan

\* C27 as stated: once no writer is between opening and writing, the access
\* file is a complete mapping and the snapshot a complete list
C27_AsStated ==
    /\ (accessFile.exists /\ \A p \in Tabs : pc[p] # "ra_write") =>
          ~LoadAccessRecords(accessFile).err
    /\ (cacheFile.exists /\ \A p \in Tabs, g \in Slots : gor[p][g].pc # "write") =>
          Decodable(cacheFile)

\* C27: nothing locks the two files.  Every write of RecordAccess reports
\* success.  When the file holds no more than the writer is about to write,
\* it becomes the writer's complete mapping: the records the writer loaded
\* and its own, so a record another tab saved after that load is lost.  When
\* the file holds more, because another writer wrote between this writer's
\* open and its write, the shorter data is followed by the tail of the longer
\* and the file decodes no more: whenever it decodes it is exactly what the
\* last writer wrote.  The same holds for two write-backs of the snapshot.
C27_LastWriterWins ==
    [][ \A p \in Tabs :
          /\ WritesAccess(p) =>
                /\ ret'[p].op = "RecordAccess" /\ ~ret'[p].err
                /\ Len(accessFile.data) <= Len(loc[p].out) =>
                      /\ accessFile'.data = loc[p].out
                      /\ ~LoadAccessRecords(accessFile').err
                      /\ IdsOf(Stored(accessFile')) =
                            IdsOf(loc[p].records) \cup {loc[p].id}
                      /\ \A r \in loc[p].records :
                            r.ProjectID # loc[p].id => r \in Stored(accessFile')
                /\ Len(accessFile.data) > Len(loc[p].out) =>
                      LoadAccessRecords(accessFile').err
          /\ \A g \in Slots :
                WritesSnapshot(p, g) =>
                   /\ Len(cacheFile.data) <= Len(gor[p][g].out) =>
                         /\ cacheFile'.data = gor[p][g].out
                         /\ Decodable(cacheFile')
                   /\ Len(cacheFile.data) > Len(gor[p][g].out) =>
                         ~Decodable(cacheFile') ]_vars

\* both tabs have recorded their project and both calls have returned nil,
\* yet the file holds the record of b alone
C27_Witness ==
    /\ \A p \in Tabs :
          pc[p] = "main" /\ ret[p].op = "RecordAccess" /\ ~ret[p].err
    /\ ~LoadAccessRecords(accessFile).err
    /\ IdsOf(Stored(accessFile)) = {"b"}

\* a root of R exists and holds a directory that cannot be read
Blocked(R, t) ==
    \E k \in 1..Len(R) :
       /\ t[R[k]].exists
       /\ \E i \in 1..Len(t[R[k]].walk) : t[R[k]].walk[i].kind = "unreadable"

\* C28: when a directory under an existing root cannot be read, FindProjects
\* returns an error and no entity, whatever it had collected before;
\* FindProjectsCached returns that error with no list, starts no write-back
\* and leaves the snapshot as it was.
C28_ScanAborts ==
    [][ \A p \in Procs :
          (Scans(p) /\ Blocked(loc[p].roots, tree)) =>
             /\ FindProjects(loc[p].roots, tree) = [err |-> TRUE, projects |-> <<>>]
             /\ pc'[p] = "main"
             /\ ret'[p].op = "FindProjectsCached"
             /\ ret'[p].err
             /\ ret'[p].projects = <<>>
             /\ gor' = gor
             /\ cacheFile' = cacheFile ]_vars

\* a scan has failed on a directory that comes after a project of the same
\* root; the expired snapshot of an earlier scan is still there and no
\* goroutine runs
C28_Witness ==
    /\ tree = LockedAfter
    /\ cacheFile.exists /\ ~Fresh(cacheFile) /\ Decodable(cacheFile)
    /\ \E p \in Procs :
          /\ pc[p] = "main"
          /\ ret[p].op = "FindProjectsCached" /\ ret[p].err /\ ret[p].src = "scan"
          /\ \A g \in Slots : gor[p][g].kind = "none"

\* the descriptors that parse under the roots R of the tree t, as paths
Under(R, t) ==
    {<<R[k], i>> : k \in 1..Len(R), i \in 1..MaxEntries + 1} \cap
    {h \in RootNames \X (1..MaxEntries + 1) :
        /\ t[h[1]].exists
        /\ h[2] <= Len(t[h[1]].walk)
        /\ t[h[1]].walk[h[2]].kind = "toml"
        /\ t[h[1]].walk[h[2]].doc.syntax}

PathsOf(list) == {list[n].Path : n \in 1..Len(list)}

\* C29: over a tree that does not change, the list FindProjectsCached
\* returns for the roots R holds an entity for every descriptor that parses
\* under R and no entity from anywhere else, whichever command wrote the
\* snapshot.
C29_RootsRespected ==
    [][ \A p \in Procs :
          /\ (Returns(p) /\ ~ret'[p].err) =>
                PathsOf(ret'[p].projects) = Under(loc[p].roots, tree)
          /\ Receives(p) =>
                PathsOf(loc'[p].projects) = Under(loc[p].roots, tree) ]_vars

\* what the commands read of an entity through its accessors
Accessors(p) ==
    [Owner |-> GetOwner(p), LicenseModel |-> GetLicenseModel(p),
     ClientName |-> GetClientName(p), Partner |-> GetPartner(p),
     Partners |-> GetPartners(p), MyRole |-> GetMyRole(p)]

\* LoadFromCache has returned after SaveToCache(disc.projects) completed
TripDone(p) ==
    /\ disc.called /\ cacheFile.exists
    /\ ret[p].op = "LoadFromCache" /\ ret[p].src = "cache"

\* C30: the list LoadFromCache returns after a completed SaveToCache(P) has
\* the length and the order of P, and its entities have the path and the
\* accessor values of those of P, and have not been migrated again.
C30_RoundTrip ==
    \A p \in Procs :
       TripDone(p) =>
          LET P == disc.projects
              Q == ret[p].projects
          IN  /\ ~ret[p].err
              /\ Len(Q) = Len(P)
              /\ \A i \in 1..Len(P) :
                    /\ Q[i].Path = P[i].Path
                    /\ Q[i].ProjectInfo.ID = P[i].ProjectInfo.ID
                    /\ Accessors(Q[i]) = Accessors(P[i])
                    /\ ~Q[i].migrated

====
